---- MODULE Spec2Model ----
(***************************************************************************)
(* A model of rotkelchen/rotkelchen.py: the Rotkelchen object's exchange   *)
(* credential lifecycle (__init__, setup_exchange, remove_exchange), its   *)
(* balance aggregation and valuation (query_balances), its main loop and   *)
(* its main currency settings.                                             *)
(*                                                                         *)
(* Tasks are gevent greenlets: a task runs until it reaches an I/O         *)
(* boundary (a call into an exchange client, query_fiat_pair()), a wait    *)
(* for the lock or gevent.sleep(), so every action below is the code       *)
(* between two such suspension points.                                     *)
(***************************************************************************)
EXTENDS Integers, Sequences, FiniteSets, Bags, TLC

VARIABLES
    secret_data,          \* self.secret_data: key string -> value string
    secret_file,          \* the file self.secret_name on disk
    connected_exchanges,  \* self.connected_exchanges: a list of names
    handles,              \* self.kraken, self.poloniex, self.bittrex, self.binance
    calls,                \* setup_exchange calls suspended in validate_api_key()
    ncalls,               \* setup_exchange and remove_exchange calls made so far
    ret,                  \* outcome of the call that completed last
    query,                \* the inputs of a query_balances call
    snapshot,             \* what that query_balances call returned
    loop,                 \* the main_loop task, shutdown_event and sleep_secs
    lock,                 \* self.lock and the calls waiting for it
    currency,             \* main_currency, usd_to_main_currency_rate and the
                          \* calls that set and use them
    qb                    \* a query_balances call iterating connected_exchanges

vars == <<secret_data, secret_file, connected_exchanges, handles, calls, ncalls,
          ret, query, snapshot, loop, lock, currency, qb>>

registry == <<secret_data, secret_file, connected_exchanges, handles>>

----------------------------------------------------------------------------
(* Bounds of the model *)

\* calls of setup_exchange and remove_exchange in one behaviour
MaxCalls == 3
\* keys in the credential file the program starts from
MaxStartKeys == 2
\* the usd_value of an asset a source reports
MaxUsd == 1

----------------------------------------------------------------------------
(* Names, keys and values *)

\* the names setup_exchange has a branch for, in the order __init__ tests them
ExchangeOrder == <<"kraken", "poloniex", "bittrex", "binance">>

SupportedExchanges == {ExchangeOrder[i] : i \in 1..Len(ExchangeOrder)}

\* a name outside the closed set, as a caller or a hand-written file may give
OtherNames == {"other"}

\* the name arguments of the calls: two of the closed set, one outside it
CallNames == {"kraken", "binance", "other"}

Names == SupportedExchanges \cup OtherNames

\* '{}_api_key'.format(name)
ApiKeyName(name) == name \o "_api_key"

\* '{}_secret'.format(name)
SecretName(name) == name \o "_secret"

KeyNames == {ApiKeyName(n) : n \in Names} \cup {SecretName(n) : n \in Names}

\* the api_key and api_secret arguments of setup_exchange
ApiKeys == {"k0", "k1"}
ApiSecrets == {"s1"}

EmptyDict == [k \in {} |-> "s0"]

\* d with d[k] = v
DictSet(d, k, v) == [x \in (DOMAIN d) \cup {k} |-> IF x = k THEN v ELSE d[x]]

\* d after del d[k]
DictDel(d, k) == [x \in (DOMAIN d) \ {k} |-> d[x]]

\* the attribute of an exchange with no client
None == <<>>

\* the client object Kraken(api_key, api_secret, ...), Poloniex(...), ...
Client(api_key, api_secret) == <<api_key, api_secret>>

----------------------------------------------------------------------------
(* The credential file *)

\* secret.json as written by rlk_jsondumps(self.secret_data)
FileOf(d) == [state |-> "file", content |-> d]

\* no secret.json in the data directory
FileMissing == [state |-> "missing", content |-> EmptyDict]

\* secret.json opened for writing (truncated) and not written: no JSON text
FileCorrupt == [state |-> "corrupt", content |-> EmptyDict]

\* os.path.isfile(self.secret_name)
isfile(f) == f.state # "missing"

\* str(v) of a value of the flat string -> string mapping: the string itself
Str(v) == v

\* lines 71-78: the mapping read from the file, every value passed to str()
LoadSecretData(f) ==
    IF isfile(f) THEN [k \in DOMAIN f.content |-> Str(f.content[k])]
    ELSE EmptyDict

\* lines 89-125: a listed api key whose secret is missing raises KeyError
StartupRaises(sd) ==
    \E n \in SupportedExchanges :
        ApiKeyName(n) \in DOMAIN sd /\ SecretName(n) \notin DOMAIN sd

\* lines 89-125: the exchanges with an api key, in the order of the four tests
StartupConnected(sd) ==
    LET HasKey(n) == ApiKeyName(n) \in DOMAIN sd
    IN  SelectSeq(ExchangeOrder, HasKey)

\* lines 83-125: one client per exchange with an api key, None for the others
StartupHandles(sd) ==
    [n \in SupportedExchanges |->
        IF ApiKeyName(n) \in DOMAIN sd
        THEN Client(sd[ApiKeyName(n)], sd[SecretName(n)])
        ELSE None]

\* what opening secret.json for writing and writing the dump can do
WriteOutcomes == {"written", "open_failed", "write_failed"}

\* lines 311-312 and 329-330: open(self.secret_name, 'w') and f.write(dump)
WriteSecretFile(f, sd, outcome) ==
    CASE outcome = "written" -> FileOf(sd)
      [] outcome = "open_failed" -> f
      [] outcome = "write_failed" -> FileCorrupt

----------------------------------------------------------------------------
(* setup_exchange and remove_exchange *)

MsgAlreadyRegistered == "Exchange {} is already registered"
MsgNotRegistered == "Exchange {} is not registered"
MsgNoSecretFile == "The secret file can not be found"
MsgUnsupported(name) == "Attempted to register unsupported exchange " \o name
\* the message of a failed validate_api_key(), chosen by the exchange client
MsgInvalidKey == "invalid api key"

\* the object's registry attributes as one value
Self == [secret_data |-> secret_data,
         secret_file |-> secret_file,
         connected_exchanges |-> connected_exchanges,
         handles |-> handles]

Returned(self, ok, msg) == [self |-> self, ok |-> ok, msg |-> msg, exc |-> "none"]

Raised(self, exc) == [self |-> self, ok |-> FALSE, msg |-> "", exc |-> exc]

\* lines 261-297: the tests before validate_api_key(); "" lets the call go on
SetupExchangeChecks(self, name) ==
    IF ApiKeyName(name) \in DOMAIN self.secret_data THEN MsgAlreadyRegistered
    ELSE IF ~isfile(self.secret_file) THEN MsgNoSecretFile
    ELSE IF name \notin SupportedExchanges THEN MsgUnsupported(name)
    ELSE ""

\* the locked section of setup_exchange without the setattr of line 305
SetupExchangeStore_NoSetattr(self, c, outcome) ==
    LET sd == DictSet(DictSet(self.secret_data, ApiKeyName(c.name), c.api_key),
                      SecretName(c.name), c.api_secret)
        stored == [secret_data |-> sd,
                   secret_file |-> WriteSecretFile(self.secret_file, sd, outcome),
                   connected_exchanges |-> Append(self.connected_exchanges, c.name),
                   handles |-> self.handles]
    IN  IF outcome = "written" THEN Returned(stored, TRUE, "")
        ELSE Raised(stored, "IOError")

\* lines 303-314: the locked section of setup_exchange call c
SetupExchangeStore(self, c, outcome) ==
    LET sd == DictSet(DictSet(self.secret_data, ApiKeyName(c.name), c.api_key),
                      SecretName(c.name), c.api_secret)
        stored == [secret_data |-> sd,
                   secret_file |-> WriteSecretFile(self.secret_file, sd, outcome),
                   connected_exchanges |-> Append(self.connected_exchanges, c.name),
                   handles |-> [self.handles EXCEPT ![c.name] = Client(c.api_key, c.api_secret)]]
    IN  IF outcome = "written" THEN Returned(stored, TRUE, "")
        ELSE Raised(stored, "IOError")

\* setup_exchange storing the exchange before it looks at the validation result
SetupExchangeResume_StoreFirst(self, c, valid, outcome) ==
    LET r == SetupExchangeStore(self, c, outcome)
    IN  IF ~valid THEN Returned(r.self, FALSE, MsgInvalidKey) ELSE r

\* lines 299-314: setup_exchange call c from the return of validate_api_key()
SetupExchangeResume(self, c, valid, outcome) ==
    IF ~valid THEN Returned(self, FALSE, MsgInvalidKey)
    ELSE SetupExchangeStore(self, c, outcome)

\* list.remove(x): the list without its first x
ListRemove(list, x) ==
    LET i == CHOOSE j \in 1..Len(list) :
                 list[j] = x /\ \A h \in 1..(j - 1) : list[h] # x
    IN  SubSeq(list, 1, i - 1) \o SubSeq(list, i + 1, Len(list))

InList(list, x) == \E i \in 1..Len(list) : list[i] = x

\* lines 317-322: the tests before the lock; "" lets the call go on
RemoveExchangeChecks(self, name) ==
    IF ApiKeyName(name) \notin DOMAIN self.secret_data THEN MsgNotRegistered
    ELSE IF ~isfile(self.secret_file) THEN MsgNoSecretFile
    ELSE ""

\* the locked section of remove_exchange also resetting the client attribute
RemoveExchangeSection_ReleasesHandle(self, name, outcome) ==
    IF ApiKeyName(name) \in DOMAIN self.secret_data
           /\ SecretName(name) \in DOMAIN self.secret_data
           /\ InList(self.connected_exchanges, name)
    THEN Returned([self EXCEPT
                      !.secret_data = DictDel(DictDel(@, ApiKeyName(name)),
                                              SecretName(name)),
                      !.connected_exchanges = ListRemove(@, name),
                      !.secret_file =
                          FileOf(DictDel(DictDel(self.secret_data, ApiKeyName(name)),
                                         SecretName(name))),
                      !.handles = [@ EXCEPT ![name] = None]],
                  TRUE, "")
    ELSE Raised(self, "KeyError")

\* lines 324-334: the locked section of remove_exchange(name)
RemoveExchangeSection(self, name, outcome) ==
    IF ApiKeyName(name) \notin DOMAIN self.secret_data
    THEN Raised(self, "KeyError")
    ELSE LET sd1 == DictDel(self.secret_data, ApiKeyName(name))
             sd2 == DictDel(sd1, SecretName(name))
         IN  IF SecretName(name) \notin DOMAIN sd1
             THEN Raised([self EXCEPT !.secret_data = sd1], "KeyError")
             ELSE IF ~InList(self.connected_exchanges, name)
             THEN Raised([self EXCEPT !.secret_data = sd2], "ValueError")
             ELSE LET removed ==
                          [self EXCEPT
                              !.secret_data = sd2,
                              !.connected_exchanges = ListRemove(@, name),
                              !.secret_file = WriteSecretFile(@, sd2, outcome)]
                  IN  IF outcome = "written" THEN Returned(removed, TRUE, "")
                      ELSE Raised(removed, "IOError")

\* lines 316-334: remove_exchange(name) when it does not wait for the lock
RemoveExchangeResult(self, name, outcome) ==
    IF RemoveExchangeChecks(self, name) # ""
    THEN Returned(self, FALSE, RemoveExchangeChecks(self, name))
    ELSE RemoveExchangeSection(self, name, outcome)

----------------------------------------------------------------------------
(* The state after construction *)

\* a hand-written file gives every api key and every secret some string
StartValue(k) == IF \E n \in Names : k = ApiKeyName(n) THEN "k0" ELSE "s0"

StartupFiles ==
    {FileMissing} \cup
    {FileOf([k \in K |-> StartValue(k)]) :
        K \in {S \in SUBSET KeyNames : Cardinality(S) <= MaxStartKeys}}

NoRet == [op |-> "none", name |-> "none", ok |-> FALSE, msg |-> "",
          exc |-> "none"]

NoQuery == [active |-> FALSE]

NoSnapshot == [status |-> "none"]

\* line 159: the argument of gevent.sleep in main_loop
LoopSleep == 10

\* the main_loop task before its first test of shutdown_event, for
\* args.sleep_secs = sleep_secs; slept is the argument of the last
\* gevent.sleep (0: none yet), invoked the main_logic() calls of the cycle
LoopStart(sleep_secs) ==
    [pc |-> "top", shutdown |-> FALSE, sleep_secs |-> sleep_secs, slept |-> 0,
     invoked |-> <<>>]

\* line 29 and 144: the lock released at the end of __init__, nobody waiting
LockFree == [holder |-> "free", waiting |-> EmptyBag]

NoConversion == [status |-> "none"]

\* line 134: main_currency is the accountant's profit currency; the attribute
\* usd_to_main_currency_rate is not set (rate 0 stands for no attribute)
CurrencyStart(profit_currency) ==
    [main_currency |-> profit_currency, selected |-> profit_currency, rate |-> 0,
     setting |-> "none", pending |-> EmptyBag, conversion |-> NoConversion]

\* no query_balances call is iterating connected_exchanges
NoQb == [pc |-> "idle"]

\* lines 28-145: __init__ on a data directory holding file f
Init ==
    \E f \in StartupFiles :
        LET sd == LoadSecretData(f)
        IN  /\ ~StartupRaises(sd)
            /\ secret_data = sd
            /\ secret_file = f
            /\ connected_exchanges = StartupConnected(sd)
            /\ handles = StartupHandles(sd)
            /\ calls = EmptyBag
            /\ ncalls = 0
            /\ ret = NoRet
            /\ query = NoQuery
            /\ snapshot = NoSnapshot
            /\ loop = LoopStart(LoopSleep)
            /\ lock = LockFree
            /\ currency = CurrencyStart("USD")
            /\ qb = NoQb

----------------------------------------------------------------------------
(* Actions *)

Install(self) ==
    /\ secret_data' = self.secret_data
    /\ secret_file' = self.secret_file
    /\ connected_exchanges' = self.connected_exchanges
    /\ handles' = self.handles

Outcome(op, name, r) ==
    [op |-> op, name |-> name, ok |-> r.ok, msg |-> r.msg, exc |-> r.exc]

\* the names of a list
ListNames(list) == {list[i] : i \in 1..Len(list)}

\* a query_balances call in progress after connected_exchanges became connected:
\* stayed keeps the names that were in the list at every moment of the call
Observed(q, connected) ==
    IF q.pc = "idle" THEN q
    ELSE [q EXCEPT !.stayed = @ \cap ListNames(connected)]

\* lines 260-299: setup_exchange up to its call of validate_api_key()
SetupExchangeBegin(name, api_key, api_secret) ==
    /\ ncalls < MaxCalls
    /\ ncalls' = ncalls + 1
    /\ LET msg == SetupExchangeChecks(Self, name)
       IN  IF msg = ""
           THEN /\ calls' = calls (+) SetToBag({[name |-> name,
                                                 api_key |-> api_key,
                                                 api_secret |-> api_secret]})
                /\ ret' = NoRet
           ELSE /\ ret' = Outcome("setup_exchange", name, Returned(Self, FALSE, msg))
                /\ UNCHANGED calls
    /\ UNCHANGED <<registry, query, snapshot, loop, lock, currency, qb>>

\* lines 299-314: validate_api_key() returns to setup_exchange call c; a valid
\* call goes on when it gets the lock
SetupExchangeValidated(c, valid, outcome) ==
    /\ BagIn(c, calls)
    /\ valid \/ outcome = "written"
    /\ valid => lock.holder = "free"
    /\ calls' = calls (-) SetToBag({c})
    /\ LET r == SetupExchangeResume(Self, c, valid, outcome)
       IN  /\ Install(r.self)
           /\ ret' = Outcome("setup_exchange", c.name, r)
           /\ qb' = Observed(qb, r.self.connected_exchanges)
    /\ UNCHANGED <<ncalls, query, snapshot, loop, lock, currency>>

\* lines 316-334: remove_exchange(name); it runs to its end when the lock is
\* free, and waits at line 324 when another task holds the lock
RemoveExchange(name, outcome) ==
    /\ ncalls < MaxCalls
    /\ ncalls' = ncalls + 1
    /\ IF RemoveExchangeChecks(Self, name) = "" /\ lock.holder # "free"
       THEN /\ lock' = [lock EXCEPT !.waiting = @ (+) SetToBag({name})]
            /\ ret' = NoRet
            /\ UNCHANGED <<registry, qb>>
       ELSE LET r == RemoveExchangeResult(Self, name, outcome)
            IN  /\ Install(r.self)
                /\ ret' = Outcome("remove_exchange", name, r)
                /\ qb' = Observed(qb, r.self.connected_exchanges)
                /\ UNCHANGED lock
    /\ UNCHANGED <<calls, query, snapshot, loop, currency>>

\* lines 324-334: a remove_exchange(name) call that waited gets the lock
RemoveExchangeLocked(name, outcome) ==
    /\ BagIn(name, lock.waiting)
    /\ lock.holder = "free"
    /\ lock' = [lock EXCEPT !.waiting = @ (-) SetToBag({name})]
    /\ LET r == RemoveExchangeSection(Self, name, outcome)
       IN  /\ Install(r.self)
           /\ ret' = Outcome("remove_exchange", name, r)
           /\ qb' = Observed(qb, r.self.connected_exchanges)
    /\ UNCHANGED <<calls, ncalls, query, snapshot, loop, currency>>

\* secret.json is deleted from the data directory by something else
SecretFileDeleted ==
    /\ isfile(secret_file)
    /\ secret_file' = FileMissing
    /\ ret' = NoRet
    /\ UNCHANGED <<secret_data, connected_exchanges, handles, calls, ncalls, query,
                   snapshot, loop, lock, currency, qb>>

Next ==
    \/ \E name \in CallNames, k \in ApiKeys, s \in ApiSecrets :
           SetupExchangeBegin(name, k, s)
    \/ \E c \in BagToSet(calls), valid \in BOOLEAN, outcome \in WriteOutcomes :
           SetupExchangeValidated(c, valid, outcome)
    \/ \E name \in CallNames, outcome \in WriteOutcomes : RemoveExchange(name, outcome)
    \/ SecretFileDeleted

Spec == Init /\ [][Next]_vars

----------------------------------------------------------------------------
(* FVal, the decimal number type of the balances, and the dictionary helpers *)
(* of rotkelchen.utils                                                       *)

RECURSIVE Gcd(_, _)
Gcd(a, b) == IF b = 0 THEN a ELSE Gcd(b, a % b)

Abs(i) == IF i < 0 THEN -i ELSE i

\* a decimal number as the fraction n / d in lowest terms, d > 0
Fraction(n, d) ==
    LET g == Gcd(Abs(n), Abs(d))
        sign == IF d < 0 THEN -1 ELSE 1
    IN  [n |-> sign * (n \div g), d |-> sign * (d \div g)]

\* FVal(i) of a whole number
FVal(i) == [n |-> i, d |-> 1]

Value(v) == [exc |-> "none", val |-> v]

Raise(exc) == [exc |-> exc, val |-> 0]

\* a / b: dividing by zero raises (decimal.DivisionByZero or InvalidOperation,
\* both an ArithmeticError)
FValDiv(a, b) ==
    IF b.n = 0 THEN Raise("ArithmeticError")
    ELSE Value(Fraction(a.n * b.d, a.d * b.n))

FValSub(a, b) == Fraction(a.n * b.d - b.n * a.d, a.d * b.d)

FValMul(a, b) == Fraction(a.n * b.n, a.d * b.d)

\* to_percentage(): the fraction as a percentage with two decimals, given in
\* hundredths of a percent (9524 is 95.24%)
ToPercentage(a) == (2 * 10000 * a.n + a.d) \div (2 * a.d)

\* one step of combine_stat_dicts: the entries of both, amount and usd_value of
\* an asset that is in both added
AddStatDicts(a, b) ==
    [k \in (DOMAIN a) \cup (DOMAIN b) |->
        IF k \in DOMAIN a /\ k \in DOMAIN b
        THEN [amount |-> a[k].amount + b[k].amount,
              usd_value |-> a[k].usd_value + b[k].usd_value]
        ELSE IF k \in DOMAIN a THEN a[k] ELSE b[k]]

RECURSIVE CombineFrom(_, _, _)
CombineFrom(acc, list, i) ==
    IF i > Len(list) THEN acc
    ELSE CombineFrom(AddStatDicts(acc, list[i]), list, i + 1)

\* combine_stat_dicts(list_of_dicts): the dictionaries merged from first to last
CombineStatDicts(list) ==
    IF Len(list) = 0 THEN EmptyDict ELSE CombineFrom(list[1], list, 2)

RECURSIVE SumAttr(_, _, _)
SumAttr(d, keys, attr) ==
    IF keys = {} THEN 0
    ELSE LET k == CHOOSE x \in keys : TRUE
         IN  d[k][attr] + SumAttr(d, keys \ {k}, attr)

\* dict_get_sumof(d, attr): the sum of attr over the entries of d
DictGetSumof(d, attr) == SumAttr(d, DOMAIN d, attr)

\* merge_dicts(a, b): the entries of both, those of b kept for a key in both
MergeDicts(a, b) ==
    [k \in (DOMAIN a) \cup (DOMAIN b) |-> IF k \in DOMAIN b THEN b[k] ELSE a[k]]

\* FIAT_CURRENCIES of rotkelchen.inquirer
FiatCurrencies == {"EUR", "USD"}

----------------------------------------------------------------------------
(* query_balances *)

\* lines 164-175: what query_fiat_balances() returns for
\* self.data.personal['fiat'] = fiat once every query_fiat_pair(currency, 'USD')
\* has answered rates[currency]
QueryFiatBalances(fiat, rates) ==
    [c \in FiatCurrencies \cap (DOMAIN fiat) |->
        [amount |-> fiat[c], usd_value |-> fiat[c] * rates[c]]]

\* d[k] = v on a dictionary kept as the list of its items in insertion order
ItemsSet(items, k, v) ==
    IF \E i \in 1..Len(items) : items[i].k = k
    THEN [i \in 1..Len(items) |->
             IF items[i].k = k THEN [k |-> k, v |-> v] ELSE items[i]]
    ELSE Append(items, [k |-> k, v |-> v])

RECURSIVE ExchangeBalances(_, _, _, _)
\* lines 178-180: balances[exchange] = getattr(self, exchange).query_balances()
ExchangeBalances(items, connected, answers, i) ==
    IF i > Len(connected) THEN items
    ELSE ExchangeBalances(ItemsSet(items, connected[i], answers[connected[i]]),
                          connected, answers, i + 1)

\* lines 178-183: the balances dictionary, as its list of items
Balances(connected, q) ==
    ItemsSet(ItemsSet(ExchangeBalances(<<>>, connected, q.exchange, 1),
                      "blockchain", q.blockchain),
             "banks", QueryFiatBalances(q.fiat, q.rates))

\* the list of line 185 taken without its first dictionary
SourceDicts_SkipsFirst(items) == [i \in 1..(Len(items) - 1) |-> items[i + 1].v]

\* line 185: [v for k, v in balances.items()]
SourceDicts(items) == [i \in 1..Len(items) |-> items[i].v]

\* the totals of line 186 taken over 'amount'
TotalUsdPerLocation_SumsAmount(items) ==
    [i \in 1..Len(items) |->
        [name |-> items[i].k, total |-> DictGetSumof(items[i].v, "amount")]]

\* line 186: [(k, dict_get_sumof(v, 'usd_value')) for k, v in balances.items()]
TotalUsdPerLocation(items) ==
    [i \in 1..Len(items) |->
        [name |-> items[i].k, total |-> DictGetSumof(items[i].v, "usd_value")]]

RECURSIVE NetUsdLoop(_, _)
NetUsdLoop(combined, keys) ==
    IF keys = {} THEN 0
    ELSE LET k == CHOOSE x \in keys : TRUE
         IN  combined[k].usd_value + NetUsdLoop(combined, keys \ {k})

\* net_usd assigned, not added to, in the loop of lines 190-191: the last value
NetUsd_KeepsLast(combined) ==
    IF DOMAIN combined = {} THEN 0
    ELSE combined[CHOOSE k \in DOMAIN combined : TRUE].usd_value

\* lines 189-191: net_usd, the usd_value of every combined entry added up
NetUsd(combined) == NetUsdLoop(combined, DOMAIN combined)

\* lines 193-204: stats, or the error of the first total / net_usd that raises
Stats(totals, net_usd) ==
    IF \E i \in 1..Len(totals) :
           FValDiv(FVal(totals[i].total), FVal(net_usd)).exc # "none"
    THEN Raise("ArithmeticError")
    ELSE Value(
        [location |->
            [name \in {totals[i].name : i \in 1..Len(totals)} |->
                LET i == CHOOSE j \in 1..Len(totals) : totals[j].name = name
                IN  [usd_value |-> totals[i].total,
                     percentage_of_net_value |->
                         ToPercentage(FValDiv(FVal(totals[i].total),
                                              FVal(net_usd)).val)]],
         net_usd |-> net_usd])

\* lines 206-207: every combined entry given its percentage_of_net_value
WithPercentages(combined, net_usd) ==
    IF \E k \in DOMAIN combined :
           FValDiv(FVal(combined[k].usd_value), FVal(net_usd)).exc # "none"
    THEN Raise("ArithmeticError")
    ELSE Value(
        [k \in DOMAIN combined |->
            [amount |-> combined[k].amount,
             usd_value |-> combined[k].usd_value,
             percentage_of_net_value |->
                 ToPercentage(FValDiv(FVal(combined[k].usd_value),
                                      FVal(net_usd)).val)]])

\* lines 225-231: percent_change of an entry for an average buy value
PercentChange(entry, average_buy_value) ==
    LET current_price == FValDiv(FVal(entry.usd_value), FVal(entry.amount))
    IN  IF current_price.exc # "none" THEN current_price
        ELSE IF average_buy_value # 0
        THEN Value(FValMul(FValDiv(FValSub(current_price.val,
                                           FVal(average_buy_value)),
                                   FVal(average_buy_value)).val,
                           FVal(100)))
        ELSE Value("INF")

\* lines 216-234: the tax overlay on result_dict; skipped when the accountant
\* has no details attribute (AttributeError)
Overlay(result_dict, details) ==
    IF ~details.ready THEN Value(result_dict)
    ELSE LET assets == (DOMAIN details.of) \cap (DOMAIN result_dict)
         IN  IF \E a \in assets :
                    PercentChange(result_dict[a], details.of[a].average_buy_value).exc
                        # "none"
             THEN Raise("ArithmeticError")
             ELSE Value(
                 [k \in DOMAIN result_dict |->
                     IF k \in assets
                     THEN [amount |-> result_dict[k].amount,
                           usd_value |-> result_dict[k].usd_value,
                           percentage_of_net_value |->
                               result_dict[k].percentage_of_net_value,
                           tax_free_amount |-> details.of[k].tax_free_amount,
                           average_buy_value |-> details.of[k].average_buy_value,
                           percent_change |->
                               PercentChange(result_dict[k],
                                             details.of[k].average_buy_value).val]
                     ELSE result_dict[k]])

\* what query_balances hands to its caller
Snapshot(r) ==
    IF r.exc # "none" THEN [status |-> "raised", exc |-> r.exc]
    ELSE [status |-> "returned", result |-> r.val]

\* lines 185-236: query_balances from the balances dictionary on
QueryBalancesFrom(items, details) ==
    LET combined == CombineStatDicts(SourceDicts(items))
        totals == TotalUsdPerLocation(items)
        net_usd == NetUsd(combined)
        stats == Stats(totals, net_usd)
        percentages == WithPercentages(combined, net_usd)
    IN  IF stats.exc # "none" THEN stats
        ELSE IF percentages.exc # "none" THEN percentages
        ELSE Overlay(MergeDicts(percentages.val, stats.val), details)

\* lines 178-236: what query_balances() returns when the exchanges it asked are
\* those of connected and its collaborators answered q
QueryBalancesResult(connected, q) ==
    Snapshot(QueryBalancesFrom(Balances(connected, q), q.details))

----------------------------------------------------------------------------
(* query_balances on the answers of its collaborators *)

\* the dictionaries with keys among those of assets and values in vals
DictsOver(assets, vals) == UNION {[K -> vals] : K \in SUBSET assets}

\* the amounts of an asset a source can report
Amounts == {0, 1}

BalanceEntries == [amount : Amounts, usd_value : 0..MaxUsd]

\* what the query_balances() of an exchange client can answer
ExchangeAnswers(name) ==
    IF name = "binance" THEN DictsOver({"BTC"}, BalanceEntries)
    ELSE DictsOver({"BTC", "EUR"}, BalanceEntries)

\* connected_exchanges when query_balances is called
ConnectedChoices ==
    {<<>>, <<"kraken">>, <<"binance", "kraken">>, <<"kraken", "kraken">>}

\* the answers of the exchanges in connected, one per name
ExchangeAnswerSets(connected) ==
    LET names == ListNames(connected)
    IN  {f \in [names -> UNION {ExchangeAnswers(n) : n \in names}] :
            \A n \in names : f[n] \in ExchangeAnswers(n)}

\* what query_fiat_pair(currency, 'USD') can answer
Rates == {2}

\* the average buy values the accountant can report
BuyValues == {0, 2}

\* self.data.accountant.details, or no such attribute yet
DetailChoices ==
    {[ready |-> FALSE, of |-> EmptyDict]} \cup
    {[ready |-> TRUE, of |-> d] :
        d \in DictsOver({"BTC"}, [tax_free_amount : {0},
                                  average_buy_value : BuyValues])}

\* a registry with the credentials and clients of the exchanges of connected
CredentialsOf(connected) ==
    LET names == ListNames(connected)
    IN  [k \in {ApiKeyName(n) : n \in names} \cup {SecretName(n) : n \in names} |->
            StartValue(k)]

InitBal ==
    \E connected \in ConnectedChoices :
      \E answers \in ExchangeAnswerSets(connected),
         chain \in DictsOver({"BTC"}, BalanceEntries),
         fiat \in DictsOver({"EUR"}, Amounts),
         rate \in Rates,
         details \in DetailChoices :
        /\ secret_data = CredentialsOf(connected)
        /\ secret_file = FileOf(secret_data)
        /\ connected_exchanges = connected
        /\ handles = StartupHandles(secret_data)
        /\ calls = EmptyBag
        /\ ncalls = 0
        /\ ret = NoRet
        /\ query = [active |-> TRUE,
                    exchange |-> answers,
                    blockchain |-> chain,
                    fiat |-> fiat,
                    rates |-> [c \in FiatCurrencies |-> rate],
                    details |-> details]
        /\ snapshot = NoSnapshot
        /\ loop = LoopStart(LoopSleep)
        /\ lock = LockFree
        /\ currency = CurrencyStart("USD")
        /\ qb = NoQb

\* FIAT_CURRENCIES in the order the for loop of line 166 takes them
FiatOrder == <<"EUR", "USD">>

\* the place of currency c in FiatOrder
FiatIndex(c) == CHOOSE j \in 1..Len(FiatOrder) : FiatOrder[j] = c

\* the for loop of line 179 taking the element after the i-th of the list as it
\* is now: the call is suspended in the query_balances() of that exchange, or,
\* the list exhausted, in that of the blockchain (line 182)
NextExchange(q, connected) ==
    IF q.i + 1 <= Len(connected)
    THEN [q EXCEPT !.pc = "exchange", !.i = q.i + 1,
                   !.queried = Append(@, connected[q.i + 1])]
    ELSE [q EXCEPT !.pc = "blockchain"]

\* the for loop of lines 166-173 from the j-th currency on: the call is
\* suspended in query_fiat_pair(currency, 'USD') for the first currency from
\* there on that is in self.data.personal['fiat'], and goes on to line 185 when
\* there is none
RECURSIVE NextFiat(_, _, _)
NextFiat(q, fiat, j) ==
    IF j > Len(FiatOrder) THEN [q EXCEPT !.pc = "done"]
    ELSE IF FiatOrder[j] \in DOMAIN fiat
    THEN [pc |-> "fiat", i |-> q.i, queried |-> q.queried, stayed |-> q.stayed,
          currency |-> FiatOrder[j]]
    ELSE NextFiat(q, fiat, j + 1)

\* lines 185-236 once the last collaborator has answered: the snapshot of the
\* exchanges that were asked; no snapshot while the call is suspended
SnapshotWhen(q) ==
    IF q.pc = "done" THEN QueryBalancesResult(q.queried, query) ELSE snapshot

\* lines 177-180: query_balances(save_data) up to its first call of a
\* collaborator; save_balances_data() (line 212) leaves the object as it is
QueryBalancesBegin(save_data) ==
    /\ query.active
    /\ qb.pc = "idle"
    /\ qb' = NextExchange([pc |-> "exchange", i |-> 0, queried |-> <<>>,
                           stayed |-> ListNames(connected_exchanges)],
                          connected_exchanges)
    /\ UNCHANGED <<registry, calls, ncalls, ret, query, snapshot, loop, lock, currency>>

\* lines 179-182: the query_balances() of an exchange returns
ExchangeQueryReturns ==
    /\ qb.pc = "exchange"
    /\ qb' = NextExchange(qb, connected_exchanges)
    /\ UNCHANGED <<registry, calls, ncalls, ret, query, snapshot, loop, lock, currency>>

\* lines 182-183 (and 185-236 with no fiat balance): the query_balances() of the
\* blockchain returns and query_fiat_balances() starts
BlockchainQueryReturns ==
    /\ qb.pc = "blockchain"
    /\ qb' = NextFiat(qb, query.fiat, 1)
    /\ snapshot' = SnapshotWhen(qb')
    /\ UNCHANGED <<registry, calls, ncalls, ret, query, loop, lock, currency>>

\* lines 169-236: query_fiat_pair(currency, 'USD') returns to
\* query_fiat_balances(); after the last currency the snapshot is computed
FiatPairReturns ==
    /\ qb.pc = "fiat"
    /\ qb' = NextFiat(qb, query.fiat, FiatIndex(qb.currency) + 1)
    /\ snapshot' = SnapshotWhen(qb')
    /\ UNCHANGED <<registry, calls, ncalls, ret, query, loop, lock, currency>>

NextBal ==
    \/ \E save_data \in BOOLEAN : QueryBalancesBegin(save_data)
    \/ ExchangeQueryReturns
    \/ BlockchainQueryReturns
    \/ FiatPairReturns

SpecBal == InitBal /\ [][NextBal]_vars

----------------------------------------------------------------------------
(* The credential lifecycle: claims *)

\* the number of times x is in the list
Count(list, x) == Cardinality({i \in 1..Len(list) : list[i] = x})

HasCredential(sd, n) == ApiKeyName(n) \in DOMAIN sd /\ SecretName(n) \in DOMAIN sd

\* a step in which a setup_exchange or remove_exchange call returned or raised
CallCompleted == ret'.op # "none"

\* C1: in every reachable state connected_exchanges holds exactly the exchange
\* names whose api key and secret are both in secret_data, each once, and the
\* credential file, where there is one, holds secret_data.
C1_ConnectedMatchesCredentials ==
    /\ \A n \in SupportedExchanges :
           Count(connected_exchanges, n) = IF HasCredential(secret_data, n) THEN 1 ELSE 0
    /\ \A i \in 1..Len(connected_exchanges) :
           connected_exchanges[i] \in SupportedExchanges
    /\ isfile(secret_file) => secret_file = FileOf(secret_data)

\* C2: the step in which a setup_exchange call leaves validate_api_key() either
\* has all three effects (the client installed, the name appended, the credential
\* in secret_data and in the credential file) or changes nothing.
C2_SetupEffectsTogether ==
    [][\A c \in BagToSet(calls) :
          (calls' = calls (-) SetToBag({c}))
          => \/ UNCHANGED registry
             \/ /\ handles'[c.name] = Client(c.api_key, c.api_secret)
                /\ connected_exchanges' = Append(connected_exchanges, c.name)
                /\ HasCredential(secret_data', c.name)
                /\ secret_data'[ApiKeyName(c.name)] = c.api_key
                /\ secret_data'[SecretName(c.name)] = c.api_secret
                /\ secret_file' = FileOf(secret_data')]_vars

\* C3: a setup_exchange or remove_exchange call that returns (False, message)
\* leaves secret_data, the credential file, connected_exchanges and the client
\* handles as they were, in the step that returns and in the step that suspends
\* the call in validate_api_key().
C3_FailedCallLeavesRegistry ==
    [][/\ (CallCompleted /\ ~ret'.ok /\ ret'.exc = "none") => UNCHANGED registry
       /\ (BagCardinality(calls') > BagCardinality(calls)) => UNCHANGED registry]_vars

\* C3 witness: a setup_exchange call returned the message of a failed
\* validate_api_key() while another exchange was connected.
C3_Witness ==
    /\ ret.op = "setup_exchange"
    /\ ~ret.ok
    /\ ret.exc = "none"
    /\ ret.msg = MsgInvalidKey
    /\ Len(connected_exchanges) > 0

\* C4: for a supported name that is not registered, a successful setup_exchange
\* followed by remove_exchange leaves secret_data and the credential file without
\* the name's two keys and the name out of connected_exchanges.
C4_RegisterThenUnregister ==
    \A n \in SupportedExchanges, k \in ApiKeys, s \in ApiSecrets :
        LET c == [name |-> n, api_key |-> k, api_secret |-> s]
            reg == SetupExchangeResume(Self, c, TRUE, "written")
            unreg == RemoveExchangeResult(reg.self, n, "written")
        IN  SetupExchangeChecks(Self, n) = ""
            => /\ reg.ok
               /\ unreg.ok
               /\ ~HasCredential(unreg.self.secret_data, n)
               /\ ApiKeyName(n) \notin DOMAIN unreg.self.secret_data
               /\ SecretName(n) \notin DOMAIN unreg.self.secret_data
               /\ unreg.self.secret_file = FileOf(unreg.self.secret_data)
               /\ ~InList(unreg.self.connected_exchanges, n)

\* C5: a setup_exchange call with a name outside the closed set returns the
\* "Attempted to register unsupported exchange" failure and leaves
\* connected_exchanges unchanged.
C5_UnsupportedNameRejected ==
    [][(CallCompleted /\ ret'.op = "setup_exchange"
            /\ ret'.name \notin SupportedExchanges)
       => /\ ~ret'.ok
          /\ ret'.exc = "none"
          /\ ret'.msg = MsgUnsupported(ret'.name)
          /\ UNCHANGED connected_exchanges]_vars

----------------------------------------------------------------------------
(* query_balances: claims *)

\* the asset entries of a result dictionary
AssetKeys(result_dict) == (DOMAIN result_dict) \ {"location", "net_usd"}

RECURSIVE Sum(_, _)
\* the sum of f over the set S
Sum(f, S) ==
    IF S = {} THEN 0
    ELSE LET x == CHOOSE y \in S : TRUE IN f[x] + Sum(f, S \ {x})

\* the balances dictionary of the query, as its list of items
QueryItems == Balances(connected_exchanges, query)

\* every usd_value every source reports is zero
EmptyPortfolio ==
    \A i \in 1..Len(QueryItems) :
        \A a \in DOMAIN QueryItems[i].v : QueryItems[i].v[a].usd_value = 0

\* the sources that report asset a
SourcesOf(a) == {i \in 1..Len(QueryItems) : a \in DOMAIN QueryItems[i].v}

\* the list in the order p
Permuted(list, p) == [i \in 1..Len(list) |-> list[p[i]]]

Orders(n) == {p \in [1..n -> 1..n] : \A i, j \in 1..n : p[i] = p[j] => i = j}

\* C6: the net_usd of a returned snapshot is the sum of usd_value over its
\* combined per-asset entries.
C6_NetUsdIsSumOfCombined ==
    snapshot.status = "returned"
    => LET result == snapshot.result
       IN  result["net_usd"] =
               Sum([a \in AssetKeys(result) |-> result[a].usd_value],
                   AssetKeys(result))

\* C6 witness: a snapshot was returned with two assets of positive usd_value,
\* one of them reported by two sources.
C6_Witness ==
    /\ snapshot.status = "returned"
    /\ AssetKeys(snapshot.result) = {"BTC", "EUR"}
    /\ snapshot.result["BTC"].usd_value > 0
    /\ snapshot.result["EUR"].usd_value > 0
    /\ Cardinality(SourcesOf("BTC")) >= 2

\* C7: the usd_value fields of the location breakdown of a returned snapshot, one
\* entry per connected exchange plus blockchain and banks, add up to its net_usd.
C7_LocationsSumToNetUsd ==
    snapshot.status = "returned"
    => LET location == snapshot.result["location"]
       IN  /\ DOMAIN location =
                  ListNames(connected_exchanges) \cup {"blockchain", "banks"}
           /\ Sum([l \in DOMAIN location |-> location[l].usd_value], DOMAIN location)
                  = snapshot.result["net_usd"]

\* C7 witness: a snapshot was returned with an exchange, the blockchain and the
\* banks each holding some value, the amounts differing from the values.
C7_Witness ==
    /\ snapshot.status = "returned"
    /\ "kraken" \in DOMAIN snapshot.result["location"]
    /\ \A l \in {"kraken", "blockchain", "banks"} :
           snapshot.result["location"][l].usd_value > 0
    /\ \E a \in AssetKeys(snapshot.result) :
           snapshot.result[a].amount # snapshot.result[a].usd_value

\* C8: the combined amount and usd_value of every asset and the net_usd of a
\* returned snapshot are those that merging the sources in any other order gives.
C8_OrderOfSourcesIrrelevant ==
    snapshot.status = "returned"
    => LET items == QueryItems
           result == snapshot.result
       IN  \A p \in Orders(Len(items)) :
               LET combined == CombineStatDicts(SourceDicts(Permuted(items, p)))
               IN  /\ DOMAIN combined = AssetKeys(result)
                   /\ \A a \in DOMAIN combined :
                          /\ combined[a].amount = result[a].amount
                          /\ combined[a].usd_value = result[a].usd_value
                   /\ NetUsd(combined) = result["net_usd"]

\* C8 witness: a snapshot was returned for four sources, three of which report
\* the same asset.
C8_Witness ==
    /\ snapshot.status = "returned"
    /\ Len(QueryItems) = 4
    /\ Cardinality(SourcesOf("BTC")) = 3
    /\ snapshot.result["BTC"].usd_value = 3 * MaxUsd
    /\ "EUR" \in AssetKeys(snapshot.result)

\* C9: query_balances on a portfolio of no value (net_usd = 0) returns a snapshot.
C9_EmptyPortfolioReturns ==
    (snapshot.status # "none" /\ EmptyPortfolio) => snapshot.status = "returned"

\* C10: query_balances with tax details, on a portfolio of some value, returns,
\* and every asset in the details and in the snapshot carries tax_free_amount,
\* average_buy_value and percent_change, which is
\* ((usd_value / amount - average_buy_value) / average_buy_value) * 100, or
\* "undefined" for an average_buy_value of zero.
C10_TaxOverlay ==
    (snapshot.status # "none" /\ query.details.ready /\ ~EmptyPortfolio)
    => /\ snapshot.status = "returned"
       /\ \A a \in (DOMAIN query.details.of) \cap AssetKeys(snapshot.result) :
              LET entry == snapshot.result[a]
                  buy == query.details.of[a].average_buy_value
              IN  /\ {"tax_free_amount", "average_buy_value", "percent_change"}
                         \subseteq DOMAIN entry
                  /\ entry.tax_free_amount = query.details.of[a].tax_free_amount
                  /\ entry.average_buy_value = buy
                  /\ IF buy = 0 THEN entry.percent_change = "undefined"
                     ELSE entry.percent_change =
                              Fraction((entry.usd_value - buy * entry.amount) * 100,
                                       buy * entry.amount)

\* the fields the tax overlay attaches to an asset entry
TaxFields == {"tax_free_amount", "average_buy_value", "percent_change"}

\* the entry without the fields of the tax overlay
BaseEntry(entry) == [f \in (DOMAIN entry) \ TaxFields |-> entry[f]]

\* C11: when the accountant has no details yet, query_balances returns a snapshot,
\* no asset entry of it carries tax_free_amount, average_buy_value or
\* percent_change, and its combined balances, location breakdown and net_usd are
\* those of the snapshot returned when the details are there.
C11_OverlaySkipped ==
    (snapshot.status # "none" /\ ~query.details.ready)
    => /\ snapshot.status = "returned"
       /\ \A a \in AssetKeys(snapshot.result) :
              (DOMAIN snapshot.result[a]) \cap TaxFields = {}
       /\ \A d \in DetailChoices :
              LET with == QueryBalancesResult(connected_exchanges,
                                              [query EXCEPT !.details = d])
              IN  with.status = "returned"
                  => /\ DOMAIN with.result = DOMAIN snapshot.result
                     /\ with.result["net_usd"] = snapshot.result["net_usd"]
                     /\ with.result["location"] = snapshot.result["location"]
                     /\ \A a \in AssetKeys(snapshot.result) :
                            BaseEntry(with.result[a]) = snapshot.result[a]

\* the statement of C11 for the portfolios of some value
C11_OverlaySkippedWithValue == EmptyPortfolio \/ C11_OverlaySkipped

----------------------------------------------------------------------------
(* The main currency: set_main_currency, set_settings, usd_to_main_currency *)

\* the currencies a caller can select and the accountant can start with
MainCurrencies == {"USD", "EUR", "GBP"}

\* query_fiat_pair('USD', c): what one US dollar is in currency c
UsdRate(c) == IF c = "EUR" THEN 2 ELSE IF c = "GBP" THEN 3 ELSE 1

\* the amounts usd_to_main_currency is called with
ConvertedAmounts == {5}

\* lines 239-242 and 245-249: the task op takes the lock, hands the currency to
\* self.data and, for a currency other than USD, asks query_fiat_pair for the
\* rate with the lock held; for USD it leaves the locked section at once
SelectCurrency(op, c) ==
    /\ ncalls < MaxCalls
    /\ ncalls' = ncalls + 1
    /\ lock.holder = "free"
    /\ currency' = [currency EXCEPT !.selected = c,
                                    !.setting = IF c # "USD" THEN c ELSE "none",
                                    !.conversion = NoConversion]
    /\ lock' = [lock EXCEPT !.holder = IF c # "USD" THEN op ELSE "free"]
    /\ UNCHANGED <<registry, calls, ret, query, snapshot, loop, qb>>

\* lines 242 and 249: query_fiat_pair returns to the task op, which stores the
\* rate and leaves the locked section
StoreRate(op) ==
    /\ lock.holder = op
    /\ currency' = [currency EXCEPT !.rate = UsdRate(currency.setting),
                                    !.setting = "none"]
    /\ lock' = [lock EXCEPT !.holder = "free"]
    /\ UNCHANGED <<registry, calls, ncalls, ret, query, snapshot, loop, qb>>

\* lines 238-242: set_main_currency(currency) up to its query_fiat_pair call
SetMainCurrency(c) == SelectCurrency("set_main_currency", c)

\* line 242: set_main_currency from the return of query_fiat_pair
SetMainCurrencyRate == StoreRate("set_main_currency")

\* lines 244-249: set_settings(settings) up to its query_fiat_pair call
SetSettings(settings) == SelectCurrency("set_settings", settings.main_currency)

\* line 249: set_settings from the return of query_fiat_pair
SetSettingsRate == StoreRate("set_settings")

\* line 255: self.usd_to_main_currency_rate * amount; reading the attribute
\* that was never set raises AttributeError
Converted(rate, amount) ==
    IF rate = 0 THEN [status |-> "raised", exc |-> "AttributeError", amount |-> amount]
    ELSE [status |-> "returned", value |-> rate * amount, amount |-> amount]

\* lines 251-255: usd_to_main_currency(amount); it asks query_fiat_pair for the
\* rate of self.main_currency when that is not USD and no rate is stored
UsdToMainCurrency(amount) ==
    /\ ncalls < MaxCalls
    /\ ncalls' = ncalls + 1
    /\ IF currency.main_currency # "USD" /\ currency.rate = 0
       THEN currency' = [currency EXCEPT
                            !.pending = @ (+) SetToBag({[amount |-> amount,
                                                         currency |-> currency.main_currency]}),
                            !.conversion = NoConversion]
       ELSE currency' = [currency EXCEPT
                            !.conversion = Converted(currency.rate, amount)]
    /\ UNCHANGED <<registry, calls, ret, query, snapshot, loop, lock, qb>>

\* lines 253-255: query_fiat_pair returns to the usd_to_main_currency call p
UsdToMainCurrencyRate(p) ==
    /\ BagIn(p, currency.pending)
    /\ currency' = [currency EXCEPT
                       !.pending = @ (-) SetToBag({p}),
                       !.rate = UsdRate(p.currency),
                       !.conversion = Converted(UsdRate(p.currency), p.amount)]
    /\ UNCHANGED <<registry, calls, ncalls, ret, query, snapshot, loop, lock, qb>>

\* the names and keys of the calls made next to the currency calls
CurrencyCallNames == {"kraken", "other"}

\* the credential files at startup: those over the keys of these names
CurrencyStartupFiles ==
    {f \in StartupFiles :
        DOMAIN f.content \subseteq
            {ApiKeyName(n) : n \in CurrencyCallNames}
                \cup {SecretName(n) : n \in CurrencyCallNames}}

InitCurrency ==
    \E f \in CurrencyStartupFiles, profit_currency \in MainCurrencies :
        LET sd == LoadSecretData(f)
        IN  /\ ~StartupRaises(sd)
            /\ secret_data = sd
            /\ secret_file = f
            /\ connected_exchanges = StartupConnected(sd)
            /\ handles = StartupHandles(sd)
            /\ calls = EmptyBag
            /\ ncalls = 0
            /\ ret = NoRet
            /\ query = NoQuery
            /\ snapshot = NoSnapshot
            /\ loop = LoopStart(LoopSleep)
            /\ lock = LockFree
            /\ currency = CurrencyStart(profit_currency)
            /\ qb = NoQb

NextCurrency ==
    \/ \E c \in MainCurrencies : SetMainCurrency(c)
    \/ SetMainCurrencyRate
    \/ \E c \in MainCurrencies : SetSettings([main_currency |-> c])
    \/ SetSettingsRate
    \/ \E amount \in ConvertedAmounts : UsdToMainCurrency(amount)
    \/ \E p \in BagToSet(currency.pending) : UsdToMainCurrencyRate(p)
    \/ \E name \in CurrencyCallNames, k \in ApiKeys, s \in ApiSecrets :
           SetupExchangeBegin(name, k, s)
    \/ \E c \in BagToSet(calls), valid \in BOOLEAN :
           SetupExchangeValidated(c, valid, "written")
    \/ \E name \in CurrencyCallNames, outcome \in WriteOutcomes :
           RemoveExchange(name, outcome)
    \/ \E name \in BagToSet(lock.waiting), outcome \in WriteOutcomes :
           RemoveExchangeLocked(name, outcome)

SpecCurrency == InitCurrency /\ [][NextCurrency]_vars

----------------------------------------------------------------------------
(* The credential lifecycle and the main currency: more claims *)

\* C13: every setup_exchange or remove_exchange call whose write of the
\* credential file does not fail returns an (ok, message) pair: the only error a
\* call raises is that of a failed write.
C13_CallsReturnPairs ==
    ret.op # "none" => ret.exc \in {"none", "IOError"}

\* C14: a setup_exchange call returns (True, '') for a name only when no
\* credential for the name is stored, so that between two removals of a name at
\* most one call for it returns (True, '').
C14_OneSuccessPerName ==
    [][(CallCompleted /\ ret'.op = "setup_exchange" /\ ret'.ok)
       => ApiKeyName(ret'.name) \notin DOMAIN secret_data]_vars

\* C15: the cached conversion rate is assigned only by a task that holds the
\* lock, and secret_data, the credential file, connected_exchanges and the client
\* handles are changed only by a task that took the free lock, so that no other
\* task is inside a locked section.
C15_MutationsUnderLock ==
    [][/\ (currency'.rate # currency.rate)
          => lock.holder \in {"set_main_currency", "set_settings"}
       /\ (<<secret_data, connected_exchanges, handles>>'
               # <<secret_data, connected_exchanges, handles>>)
          => lock.holder = "free"]_vars

\* C19: every name in connected_exchanges is one of kraken, poloniex, bittrex and
\* binance and its client attribute is not None.
C19_ConnectedHaveClients ==
    \A i \in 1..Len(connected_exchanges) :
        /\ connected_exchanges[i] \in SupportedExchanges
        /\ handles[connected_exchanges[i]] # None

\* C19 witness: a setup_exchange call returned (True, '') for an exchange that had
\* no client at startup, next to another connected exchange.
C19_Witness ==
    /\ ret.op = "setup_exchange"
    /\ ret.ok
    /\ Len(connected_exchanges) >= 2
    /\ \E i \in 1..Len(connected_exchanges) :
           /\ connected_exchanges[i] = ret.name
           /\ handles[ret.name] = Client(secret_data[ApiKeyName(ret.name)],
                                         secret_data[SecretName(ret.name)])

\* the currency usd_to_main_currency is to convert to: the one selected last
CurrentMainCurrency == currency.selected

\* C20: every usd_to_main_currency(amount) call returns, with amount times the
\* USD rate of the main currency selected last when that is not USD, and with
\* amount when it is USD.
C20_ConvertsWithCurrentRate ==
    currency.conversion.status # "none"
    => /\ currency.conversion.status = "returned"
       /\ currency.conversion.value =
              IF CurrentMainCurrency = "USD" THEN currency.conversion.amount
              ELSE currency.conversion.amount * UsdRate(CurrentMainCurrency)

----------------------------------------------------------------------------
(* main_loop and shutdown *)

\* the exchanges whose main_logic() the loop calls, in the order of lines 153-156
HookOrder == <<"poloniex", "kraken">>

\* the while test of line 151 never looking at shutdown_event
MainLoopContinues_IgnoresEvent(l) == TRUE

\* line 151: while True and not self.shutdown_event.is_set()
MainLoopContinues(l) == ~l.shutdown

\* the call of self.<name>.main_logic() as the loop makes it
Invocation(name) ==
    [hook |-> name, client |-> handles[name],
     registered |-> ApiKeyName(name) \in DOMAIN secret_data]

\* lines 153-159 from the test of the i-th hook on: the loop is suspended in the
\* main_logic() of the first exchange from there on whose client is not None,
\* and in gevent.sleep(10) when there is none
RECURSIVE PassFrom(_, _)
PassFrom(l, i) ==
    IF i > Len(HookOrder)
    THEN [l EXCEPT !.pc = "sleep", !.slept = LoopSleep]
    ELSE IF handles[HookOrder[i]] # None
    THEN [l EXCEPT !.pc = HookOrder[i],
                   !.invoked = Append(@, Invocation(HookOrder[i]))]
    ELSE PassFrom(l, i + 1)

\* the place in HookOrder of the hook the loop is suspended in
HookIndex(name) == CHOOSE i \in 1..Len(HookOrder) : HookOrder[i] = name

\* lines 151-159: the loop tests shutdown_event and ends, or starts a cycle
MainLoopTest ==
    /\ loop.pc = "top"
    /\ loop' = IF MainLoopContinues(loop)
               THEN PassFrom([loop EXCEPT !.invoked = <<>>], 1)
               ELSE [loop EXCEPT !.pc = "done"]
    /\ UNCHANGED <<registry, calls, ncalls, ret, query, snapshot, lock, currency, qb>>

\* lines 154-159: the main_logic() the loop is suspended in returns
MainLogicReturns ==
    /\ loop.pc \in ListNames(HookOrder)
    /\ loop' = PassFrom(loop, HookIndex(loop.pc) + 1)
    /\ UNCHANGED <<registry, calls, ncalls, ret, query, snapshot, lock, currency, qb>>

\* line 159: gevent.sleep(10) returns and the loop is back at its test
SleepEnds ==
    /\ loop.pc = "sleep"
    /\ loop' = [loop EXCEPT !.pc = "top"]
    /\ UNCHANGED <<registry, calls, ncalls, ret, query, snapshot, lock, currency, qb>>

\* lines 336-338: shutdown()
Shutdown ==
    /\ loop' = [loop EXCEPT !.shutdown = TRUE]
    /\ UNCHANGED <<registry, calls, ncalls, ret, query, snapshot, lock, currency, qb>>

\* the steps of the main_loop task
MainLoopStep == MainLoopTest \/ MainLogicReturns \/ SleepEnds

\* the values of args.sleep_secs: the default and another one
SleepSecsChoices == {LoopSleep, 5}

\* the names of the calls made next to the loop: the exchanges it has hooks for
LoopCallNames == ListNames(HookOrder)

LoopStartupFiles ==
    {f \in StartupFiles :
        DOMAIN f.content \subseteq
            {ApiKeyName(n) : n \in LoopCallNames} \cup {SecretName(n) : n \in LoopCallNames}}

InitLoop ==
    \E f \in LoopStartupFiles, sleep_secs \in SleepSecsChoices :
        LET sd == LoadSecretData(f)
        IN  /\ ~StartupRaises(sd)
            /\ secret_data = sd
            /\ secret_file = f
            /\ connected_exchanges = StartupConnected(sd)
            /\ handles = StartupHandles(sd)
            /\ calls = EmptyBag
            /\ ncalls = 0
            /\ ret = NoRet
            /\ query = NoQuery
            /\ snapshot = NoSnapshot
            /\ loop = LoopStart(sleep_secs)
            /\ lock = LockFree
            /\ currency = CurrencyStart("USD")
            /\ qb = NoQb

NextLoop ==
    \/ MainLoopTest
    \/ MainLogicReturns
    \/ SleepEnds
    \/ Shutdown
    \/ \E name \in LoopCallNames, s \in ApiSecrets : SetupExchangeBegin(name, "k1", s)
    \/ \E c \in BagToSet(calls), valid \in BOOLEAN :
           SetupExchangeValidated(c, valid, "written")
    \/ \E name \in LoopCallNames : RemoveExchange(name, "written")

SpecLoop == InitLoop /\ [][NextLoop]_vars

\* the scheduler runs the loop task whenever it can run: every main_logic()
\* call and every gevent.sleep returns
SpecLoopFair == SpecLoop /\ WF_vars(MainLoopStep)

----------------------------------------------------------------------------
(* main_loop: claims *)

\* the loop is inside a cycle: in a main_logic() call or in its wait
InCycle(l) == l.pc \in ListNames(HookOrder) \cup {"sleep"}

\* C12: the loop ends only at its test at the top of a cycle and only with the
\* event set; a cycle that has started goes on to its wait and back to the top;
\* with the event set the loop starts no new cycle; and once shutdown() has been
\* called the loop ends.
C12_CooperativeCancellation ==
    /\ [][/\ (loop'.pc = "done" /\ loop.pc # "done")
             => (loop.pc = "top" /\ loop.shutdown)
          /\ (InCycle(loop) /\ loop'.pc # loop.pc)
             => IF loop.pc = "sleep" THEN loop'.pc = "top" ELSE InCycle(loop')
          /\ (loop.pc = "top" /\ loop.shutdown) => loop'.pc \in {"top", "done"}
          /\ loop.shutdown => loop'.shutdown]_vars
    /\ (loop.shutdown ~> (loop.pc = "done"))

\* C12 witness: the loop has ended after shutdown(), having run a cycle in which
\* it called a main_logic() and waited.
C12_Witness ==
    /\ loop.pc = "done"
    /\ loop.shutdown
    /\ loop.slept = LoopSleep
    /\ Len(loop.invoked) > 0

\* C16: a remove_exchange call that returns (True, '') leaves every client
\* attribute as it was, that of the removed exchange not None; and the loop calls
\* the main_logic() of that client, as of every client that is not None, in each
\* cycle it starts before shutdown.
C16_RemovedHandleStaysLive ==
    [][/\ (ret'.op = "remove_exchange" /\ ret'.ok
               /\ connected_exchanges' # connected_exchanges)
          => /\ handles' = handles
             /\ ret'.name \in SupportedExchanges => handles'[ret'.name] # None
       /\ \A i \in 1..Len(HookOrder) :
              (/\ handles[HookOrder[i]] # None
               /\ \/ loop.pc = "top" /\ ~loop.shutdown
                     /\ \A j \in 1..(i - 1) : handles[HookOrder[j]] = None
                  \/ loop.pc \in ListNames(HookOrder)
                     /\ HookIndex(loop.pc) < i
                     /\ \A j \in (HookIndex(loop.pc) + 1)..(i - 1) :
                            handles[HookOrder[j]] = None
               /\ loop' # loop /\ loop'.shutdown = loop.shutdown)
              => /\ loop'.pc = HookOrder[i]
                 /\ loop'.invoked[Len(loop'.invoked)].hook = HookOrder[i]
                 /\ loop'.invoked[Len(loop'.invoked)].client = handles[HookOrder[i]]]_vars

\* C16 witness: kraken was removed by a remove_exchange call that returned
\* (True, ''), and the loop has since called the main_logic() of its client.
C16_Witness ==
    /\ ret.op = "remove_exchange"
    /\ ret.ok
    /\ ret.name = "kraken"
    /\ ApiKeyName("kraken") \notin DOMAIN secret_data
    /\ handles["kraken"] # None
    /\ \E i \in 1..Len(loop.invoked) :
           /\ loop.invoked[i].hook = "kraken"
           /\ ~loop.invoked[i].registered
           /\ loop.invoked[i].client = handles["kraken"]

\* C17: a cycle calls the main_logic() of the exchanges that have one and a
\* client, one after the other, and then waits for sleep_secs.
C17_WaitIsSleepSecs ==
    [][(loop'.pc = "sleep" /\ loop.pc # "sleep")
       => /\ loop'.slept = loop.sleep_secs
          /\ \A i \in 1..Len(loop'.invoked) :
                 /\ loop'.invoked[i].client # None
                 /\ \A j \in 1..(i - 1) :
                        HookIndex(loop'.invoked[j].hook)
                            < HookIndex(loop'.invoked[i].hook)]_vars

----------------------------------------------------------------------------
(* query_balances next to setup_exchange and remove_exchange *)

\* the names of the calls made next to query_balances
QueryCallNames == {"kraken", "binance"}

QueryStartupFiles ==
    {f \in StartupFiles :
        DOMAIN f.content \subseteq
            {ApiKeyName(n) : n \in QueryCallNames} \cup {SecretName(n) : n \in QueryCallNames}}

\* every exchange and the blockchain report one BTC worth one dollar; the banks
\* hold one EUR or nothing
OneBitcoin == [a \in {"BTC"} |-> [amount |-> 1, usd_value |-> 1]]

InitQuery ==
    \E f \in QueryStartupFiles, fiat \in DictsOver({"EUR"}, {1}) :
        LET sd == LoadSecretData(f)
        IN  /\ ~StartupRaises(sd)
            /\ secret_data = sd
            /\ secret_file = f
            /\ connected_exchanges = StartupConnected(sd)
            /\ handles = StartupHandles(sd)
            /\ calls = EmptyBag
            /\ ncalls = 0
            /\ ret = NoRet
            /\ query = [active |-> TRUE,
                        exchange |-> [n \in SupportedExchanges |-> OneBitcoin],
                        blockchain |-> OneBitcoin,
                        fiat |-> fiat,
                        rates |-> [c \in FiatCurrencies |-> 2],
                        details |-> [ready |-> FALSE, of |-> EmptyDict]]
            /\ snapshot = NoSnapshot
            /\ loop = LoopStart(LoopSleep)
            /\ lock = LockFree
            /\ currency = CurrencyStart("USD")
            /\ qb = NoQb

NextQuery ==
    \/ \E save_data \in BOOLEAN : QueryBalancesBegin(save_data)
    \/ ExchangeQueryReturns
    \/ BlockchainQueryReturns
    \/ FiatPairReturns
    \/ \E name \in QueryCallNames, k \in ApiKeys, s \in ApiSecrets :
           SetupExchangeBegin(name, k, s)
    \/ \E c \in BagToSet(calls), valid \in BOOLEAN :
           SetupExchangeValidated(c, valid, "written")
    \/ \E name \in QueryCallNames : RemoveExchange(name, "written")

SpecQuery == InitQuery /\ [][NextQuery]_vars

\* C18: a query_balances call that ran next to setup_exchange and
\* remove_exchange calls returns a location breakdown with an entry for every
\* exchange that was in connected_exchanges during the whole call, and asked no
\* exchange more than once.
C18_QueryCoversConnected ==
    (qb.pc = "done" /\ snapshot.status = "returned")
    => /\ qb.stayed \subseteq DOMAIN snapshot.result["location"]
       /\ \A n \in SupportedExchanges : Count(qb.queried, n) <= 1

\* the statement of C18 for the calls during which connected_exchanges is not
\* changed
C18_QueryCoversConnectedAlone ==
    (qb.pc = "done" /\ snapshot.status = "returned" /\ ncalls = 0)
    => /\ qb.stayed \subseteq DOMAIN snapshot.result["location"]
       /\ qb.queried = connected_exchanges

====
